---- MODULE Spec2Model ----
(***************************************************************************)
(* Model of src/extract_to_json.py: the extraction pass that reads a PDF   *)
(* page by page, detects constituency headers, parses candidate rows and   *)
(* writes one JSON document.                                               *)
(*                                                                         *)
(* Text is modelled at character level where the code works on characters *)
(* (table cells: strip, replace, isdigit, upper, int, float).  A string is *)
(* a sequence of one-character strings.  The output of the PDF engine      *)
(* (page text, tables, rows) is the environment: it is drawn when the code *)
(* reads it.                                                               *)
(***************************************************************************)
EXTENDS Integers, Sequences, FiniteSets, TLC

(***************************************************************************)
(* Bounds of the model.                                                    *)
(***************************************************************************)
MaxPages == 2
MaxTables == 1
MaxRows == 4

(***************************************************************************)
(* Python values.                                                          *)
(***************************************************************************)
\* None where the alternatives are dicts (records).
None == [py |-> "None"]
\* None where the alternatives are strings or lists (sequences).
NoneSeq == <<"None">>
\* An optional number: None is <<>>, the number n is <<n>>.
Absent == <<>>
Some(n) == <<n>>

\* bool(x) of a str-or-None / list-or-None value.
Truthy(s) == s # NoneSeq /\ s # <<>>

(***************************************************************************)
(* str methods.                                                            *)
(***************************************************************************)
Digits == {"0", "1", "2", "3", "4", "5", "6", "7", "8", "9"}
Whitespace == {" ", "\n"}

DigitVal(c) ==
    CASE c = "0" -> 0 [] c = "1" -> 1 [] c = "2" -> 2 [] c = "3" -> 3
      [] c = "4" -> 4 [] c = "5" -> 5 [] c = "6" -> 6 [] c = "7" -> 7
      [] c = "8" -> 8 [] c = "9" -> 9

RECURSIVE LStrip(_)
LStrip(s) ==
    IF s # <<>> /\ Head(s) \in Whitespace THEN LStrip(Tail(s)) ELSE s

RECURSIVE RStrip(_)
RStrip(s) ==
    IF s # <<>> /\ s[Len(s)] \in Whitespace
    THEN RStrip(SubSeq(s, 1, Len(s) - 1))
    ELSE s

\* str.strip()
Strip(s) == RStrip(LStrip(s))

\* str.replace(old, new) for a one-character old; new is a string.
RECURSIVE Replace(_, _, _)
Replace(s, old, new) ==
    IF s = <<>> THEN <<>>
    ELSE (IF Head(s) = old THEN new ELSE <<Head(s)>>) \o Replace(Tail(s), old, new)

\* str.isdigit(): non-empty and every character a digit.
IsDigit(s) == s # <<>> /\ \A i \in 1..Len(s) : s[i] \in Digits

UpperChar(c) ==
    CASE c = "s" -> "S" [] c = "l" -> "L" [] c = "n" -> "N" [] c = "o" -> "O"
      [] c = "t" -> "T" [] c = "a" -> "A" [] c = "x" -> "X"
      [] OTHER -> c

\* str.upper()
Upper(s) == [i \in 1..Len(s) |-> UpperChar(s[i])]

RECURSIVE DigitsValue(_)
DigitsValue(ds) ==
    IF ds = <<>> THEN 0
    ELSE 10 * DigitsValue(SubSeq(ds, 1, Len(ds) - 1)) + DigitVal(ds[Len(ds)])

\* The result of a conversion: a value, or the exception it raises.
Ok(v) == [raised |-> "", val |-> v]
Raises(e) == [raised |-> e, val |-> 0]

\* int(s) for a str: surrounding whitespace is ignored, an optional sign, then
\* digits only; anything else (a comma, a space inside, letters, the empty
\* string) raises ValueError.
SignedInt(sign, ds) ==
    IF IsDigit(ds)
    THEN Ok(IF sign = "-" THEN 0 - DigitsValue(ds) ELSE DigitsValue(ds))
    ELSE Raises("ValueError")

IntOfStripped(t) ==
    IF t # <<>> /\ Head(t) \in {"-", "+"} THEN SignedInt(Head(t), Tail(t))
    ELSE SignedInt("+", t)

PyInt(s) == IntOfStripped(Strip(s))

\* Position of the first "." of s from position i on, or 0.
RECURSIVE DotAt(_, _)
DotAt(s, i) ==
    IF i > Len(s) THEN 0 ELSE IF s[i] = "." THEN i ELSE DotAt(s, i + 1)

RECURSIVE DropTrailingZeros(_)
DropTrailingZeros(ds) ==
    IF ds # <<>> /\ ds[Len(ds)] = "0"
    THEN DropTrailingZeros(SubSeq(ds, 1, Len(ds) - 1))
    ELSE ds

\* float(s) for a str over the characters the model uses: surrounding
\* whitespace ignored, optional sign, digits with at most one ".", at least
\* one digit; anything else raises ValueError.  The value is the decimal
\* mant / 10^scale, normalised.
Decimal(sign, ip, frac) ==
    [ mant  |-> IF sign = "-" THEN 0 - DigitsValue(ip \o frac) ELSE DigitsValue(ip \o frac),
      scale |-> Len(frac) ]

FloatOfParts(sign, ip, fp) ==
    IF /\ ip \o fp # <<>>
       /\ \A i \in 1..Len(ip) : ip[i] \in Digits
       /\ \A i \in 1..Len(fp) : fp[i] \in Digits
    THEN Ok(Decimal(sign, ip, DropTrailingZeros(fp)))
    ELSE Raises("ValueError")

FloatSplitAt(sign, u, d) ==
    IF d = 0 THEN FloatOfParts(sign, u, <<>>)
    ELSE FloatOfParts(sign, SubSeq(u, 1, d - 1), SubSeq(u, d + 1, Len(u)))

FloatOfStripped(t) ==
    IF t # <<>> /\ Head(t) \in {"-", "+"} THEN FloatSplitAt(Head(t), Tail(t), DotAt(Tail(t), 1))
    ELSE FloatSplitAt("+", t, DotAt(t, 1))

PyFloat(s) == FloatOfStripped(Strip(s))

(***************************************************************************)
(* parse_table_row                                                         *)
(***************************************************************************)
\* row[k]: IndexError when the row has no cell k (k counts from 0).
Access(r, k) == IF k < Len(r) THEN Ok(r[k + 1]) ELSE Raises("IndexError")

\* str(c).strip() if c else ""            (gender, category, party)
\* str(c).strip().replace("\n", " ") if c else ""   (candidate_name, symbol)
StrOf(a, joinLines) ==
    IF a.raised # "" THEN a
    ELSE IF ~Truthy(a.val) THEN Ok(<<>>)
    ELSE Ok(IF joinLines THEN Replace(Strip(a.val), "\n", <<" ">>) ELSE Strip(a.val))

StrField(r, k, joinLines) == StrOf(Access(r, k), joinLines)

\* The guard of an integer field: str(c).strip().isdigit(), or, for the vote
\* counts, str(c).strip().replace(",", "").isdigit().
IntGuard(c, commas) ==
    /\ Truthy(c)
    /\ IsDigit(IF commas THEN Replace(Strip(c), ",", <<>>) ELSE Strip(c))

\* A converted value as an optional: <<v>>.
SomeOf(n) == IF n.raised # "" THEN n ELSE Ok(Some(n.val))

\* int(c) if <guard> else None: the conversion is applied to the cell itself,
\* not to the text the guard looked at.
OptIntOf(a, commas) ==
    IF a.raised # "" THEN a
    ELSE IF ~IntGuard(a.val, commas) THEN Ok(Absent)
    ELSE SomeOf(PyInt(a.val))

OptIntField(r, k, commas) == OptIntOf(Access(r, k), commas)

\* int(c) if <guard> else 0               (votes_secured)
IntOrZeroOf(a) ==
    IF a.raised # "" THEN a
    ELSE IF ~IntGuard(a.val, TRUE) THEN Ok(0)
    ELSE PyInt(a.val)

IntOrZeroField(r, k) == IntOrZeroOf(Access(r, k))

\* The guard of a percentage field: the cell is truthy and
\* str(c).strip().replace(",", "").replace("%", "").replace("-", "").strip()
\* is not empty.
FloatGuard(c) ==
    /\ Truthy(c)
    /\ Strip(Replace(Replace(Replace(Strip(c), ",", <<>>), "%", <<>>), "-", <<>>)) # <<>>

\* float(c) if <guard> else None
OptFloatOf(a) ==
    IF a.raised # "" THEN a
    ELSE IF ~FloatGuard(a.val) THEN Ok(Absent)
    ELSE SomeOf(PyFloat(a.val))

OptFloatField(r, k) == OptFloatOf(Access(r, k))

\* Rule 1: not row or len(row) < 10.
TooShort(r) == r = <<>> \/ Len(r) < 10

\* Rule 2: row[0] is None or str(row[0]).strip().upper() in
\* ["SL", "SL NO", "TOTAL", ""].
HeaderOrTotal(r) ==
    \/ r[1] = NoneSeq
    \/ Upper(Strip(r[1])) \in { <<"S", "L">>,
                                  <<"S", "L", " ", "N", "O">>,
                                  <<"T", "O", "T", "A", "L">>,
                                  <<>> }

\* The fields of the candidate dict, each a value or the exception raised.
CandidateFields(r) ==
    [ serial_number      |-> OptIntField(r, 0, FALSE),
      candidate_name     |-> StrField(r, 1, TRUE),
      gender             |-> StrField(r, 2, FALSE),
      age                |-> OptIntField(r, 3, FALSE),
      category           |-> StrField(r, 4, FALSE),
      party              |-> StrField(r, 5, FALSE),
      symbol             |-> StrField(r, 6, TRUE),
      total_votes_polled |-> OptIntField(r, 7, TRUE),
      valid_votes        |-> OptIntField(r, 8, TRUE),
      general            |-> IntOrZeroField(r, 9),
      postal             |-> IntOrZeroField(r, 10),
      total              |-> IntOrZeroField(r, 11),
      over_total_electors     |-> OptFloatField(r, 12),
      over_total_votes_polled |-> OptFloatField(r, 13),
      over_total_valid_votes  |-> IF Len(r) > 14 THEN OptFloatField(r, 14)
                                  ELSE Ok(Absent) ]

\* The dict the try block builds, or None when building it raised ValueError
\* or IndexError.
BuildCandidate(f) ==
    IF \E k \in DOMAIN f : f[k].raised \in {"ValueError", "IndexError"}
    THEN None
    ELSE [ serial_number      |-> f.serial_number.val,
           candidate_name     |-> f.candidate_name.val,
           gender             |-> f.gender.val,
           age                |-> f.age.val,
           category           |-> f.category.val,
           party              |-> f.party.val,
           symbol             |-> f.symbol.val,
           total_votes_polled |-> f.total_votes_polled.val,
           valid_votes        |-> f.valid_votes.val,
           votes_secured      |-> [ general |-> f.general.val,
                                    postal  |-> f.postal.val,
                                    total   |-> f.total.val ],
           percentage_of_votes |->
               [ over_total_electors     |-> f.over_total_electors.val,
                 over_total_votes_polled |-> f.over_total_votes_polled.val,
                 over_total_valid_votes  |-> f.over_total_valid_votes.val ] ]

\* parse_table_row(row, headers): the candidate dict, or None when the row is
\* rejected.
parse_table_row(r) ==
    IF TooShort(r) THEN None
    ELSE IF HeaderOrTotal(r) THEN None
    ELSE BuildCandidate(CandidateFields(r))

(***************************************************************************)
(* Page text and extract_constituency_info                                 *)
(*                                                                         *)
(* A page's text is a sequence of segments: plain text, which the header   *)
(* pattern does not match, or one occurrence of                            *)
(*   "Constituency: <number> . <name> ( Total Electors <electors>)"        *)
(* carrying the three groups the pattern captures, as text.                *)
(***************************************************************************)
\* extract_text() returning None.
NoneText == <<None>>

Plain == [kind |-> "plain"]
HeaderSeg(number, name, electors) ==
    [kind |-> "header", number |-> number, name |-> name, electors |-> electors]

\* re.search: the first occurrence of the pattern in the text, or None.
RECURSIVE FirstMatch(_)
FirstMatch(t) ==
    IF t = <<>> THEN None
    ELSE IF Head(t).kind = "header" THEN Head(t)
    ELSE FirstMatch(Tail(t))

\* The dict built from a match, or None.
InfoOf(match) ==
    IF match # None
    THEN [ constituency_number |-> PyInt(match.number).val,
           constituency_name   |-> Strip(match.name),
           total_electors      |-> PyInt(match.electors).val ]
    ELSE None

extract_constituency_info(t) == InfoOf(FirstMatch(t))

\* A variant of the test below that skips a page only when its text is None.
NoTextNoneOnly(t) == t = NoneText

\* if not text: the page has no text (None or the empty string).
NoText(t) == t = NoneText \/ t = <<>>

(***************************************************************************)
(* The accumulator                                                         *)
(***************************************************************************)
\* A variant of Flush that loses the record.
FlushDrops(flushed, current) == flushed

\* A variant of Flush that appends the record without its candidates.
FlushEmptied(flushed, current) ==
    IF current # None THEN Append(flushed, [current EXCEPT !.candidates = <<>>])
    ELSE flushed

\* if current_constituency: results["constituencies"].append(current_constituency)
Flush(flushed, current) ==
    IF current # None THEN Append(flushed, current) ELSE flushed

\* The dict a header match starts.
NewConstituency(info) ==
    [ constituency_number |-> info.constituency_number,
      constituency_name   |-> info.constituency_name,
      total_electors      |-> info.total_electors,
      candidates          |-> <<>> ]

\* next((c for c in candidates if c["serial_number"] == serial), None)
RECURSIVE Existing(_, _)
Existing(candidates, serial) ==
    IF candidates = <<>> THEN None
    ELSE IF Head(candidates).serial_number = serial THEN Head(candidates)
    ELSE Existing(Tail(candidates), serial)

\* A variant of Admit without the look-up of the serial number.
AdmitUnchecked(current, flushed, cand) ==
    IF cand # None /\ cand.serial_number # Absent
    THEN [current EXCEPT !.candidates = Append(@, cand)]
    ELSE current

\* A variant of Admit that looks the serial number up in the flushed records
\* too.
AdmitGlobal(current, flushed, cand) ==
    IF cand # None /\ cand.serial_number # Absent
    THEN IF /\ Existing(current.candidates, cand.serial_number) = None
            /\ \A i \in 1..Len(flushed) :
                  Existing(flushed[i].candidates, cand.serial_number) = None
         THEN [current EXCEPT !.candidates = Append(@, cand)]
         ELSE current
    ELSE current

\* The body of the row loop after the parse: admit the candidate into the
\* current record unless it is None, has no serial number, or a candidate of
\* the current record already has its serial number.
Admit(current, flushed, cand) ==
    IF cand # None /\ cand.serial_number # Absent
    THEN IF Existing(current.candidates, cand.serial_number) = None
         THEN [current EXCEPT !.candidates = Append(@, cand)]
         ELSE current
    ELSE current

\* Variants of the slice: table[1:] and table[0:].
SliceFromOne == 2 - 1
SliceFromZero == 2 - 2

\* table[2:] starts at this position; a table shorter than MinRows is skipped.
SliceStart == 2
MinRows == 2
\* The rows that the test len(table) < 2 counts, table[:2], are drawn when the
\* table is taken from the table loop; the rows after them when the row loop
\* reaches them.
Eager == MinRows

\* A variant in which an exception raised inside the page loop is swallowed
\* and control reaches the write.
ExceptionToWrite == "write"

\* Where an exception raised inside the page loop takes control: out of the
\* with block and out of extract_pdf_to_json, past the write, to the handler
\* of the caller.
ExceptionTarget == "aborted"

(***************************************************************************)
(* Inputs: what the PDF engine can return                                  *)
(***************************************************************************)
\* A well-formed 15-cell candidate row with serial number 7.
RowA7 ==
    << <<"7">>, <<"A", "\n", "a">>, <<"M">>, <<"4", "5">>, <<"G">>, <<"P">>, <<"S">>,
       <<"1", "2", "3", "4", "5">>, <<"1", "2", "3", "0", "0">>,
       <<"1", "0">>, <<"2">>, <<"1", "2">>,
       <<"0", ".", "6", "6">>, <<"-">>, <<"8", "3", ".", "9", "0">> >>
\* Another row with serial number 7 (written " 7 "), another candidate.
RowB7 == [RowA7 EXCEPT ![1] = <<" ", "7", " ">>, ![2] = <<"B">>]
\* A row with serial number 1.
Row1 == [RowA7 EXCEPT ![1] = <<"1">>, ![2] = <<"C">>]
\* Serial number 2 and a vote count written with a thousands separator.
RowComma == [RowA7 EXCEPT ![1] = <<"2">>, ![2] = <<"D">>,
                          ![8] = <<"1", "2", ",", "3", "4", "5">>]
\* A header row of the table.
RowSL == [RowA7 EXCEPT ![1] = <<"s", "l", " ", "n", "o">>]
\* A row whose first cell is not a number.
RowNoSerial == [RowA7 EXCEPT ![1] = <<"x">>, ![2] = NoneSeq]
\* A row of 12 cells.
RowShort == SubSeq(Row1, 1, 12)

\* The rows a table can hold beyond its first Eager rows.
Rows == {RowA7, RowB7, Row1, RowComma, RowSL, RowNoSerial, RowShort}
\* The rows a table can hold among its first Eager rows.
HeadRows == {RowSL, Row1}

\* parse_table_row on the rows above: a constant, evaluated once.
ParsedRows == [r \in Rows \cup HeadRows |-> parse_table_row(r)]
\* parse_table_row(r), looked up when r is one of the rows above.
Parse(r) == IF r \in DOMAIN ParsedRows THEN ParsedRows[r] ELSE parse_table_row(r)

H1 == HeaderSeg(<<"1">>, <<"A", "r", "a", "k", "u", " ">>, <<"1", "0", "0">>)
H01 == HeaderSeg(<<"0", "1">>, <<"A", "r", "a", "k", "u">>, <<"1", "0", "0">>)
H2 == HeaderSeg(<<"2">>, <<"G", "u", "n", "t", "u", "r">>, <<"2", "0", "0">>)

\* What extract_text() can return.
Texts == { NoneText, <<>>, <<Plain>>, <<H1>>, <<Plain, H01>>, <<Plain, H2, H1>> }

\* Sequences of length n over S.
SeqsOfLen(S, n) == [1..n -> S]

Min(a, b) == IF a < b THEN a ELSE b

\* The two-page documents of the end-to-end scenario: page 1 has a header for
\* constituency 1 and one table of one or two header rows followed by one
\* valid data row with serial number 1; page 2 has a header for constituency 2
\* and no tables.
RowTotal == [RowA7 EXCEPT ![1] = <<"T", "o", "t", "a", "l">>]
Row1Padded == [Row1 EXCEPT ![1] = <<" ", "1">>]
E2EText1 == { <<H1>>, <<Plain, H1>>, <<H01>>, <<Plain, H01>>, <<H1, H2>> }
E2EText2 == { <<H2>>, <<Plain, H2>> }
E2EHeads == SeqsOfLen({RowSL, RowTotal}, 1) \cup SeqsOfLen({RowSL, RowTotal}, 2)
E2EData == { Row1, Row1Padded }
E2EDocs ==
    { [ fixed |-> TRUE,
        pages |-> << [text |-> t1, tables |-> << hs \o <<d>> >>],
                     [text |-> t2, tables |-> <<>>] >> ] :
      t1 \in E2EText1, hs \in E2EHeads, d \in E2EData, t2 \in E2EText2 }

\* Rows handed to parse_table_row on its own: 15 cells, one of the vote-count
\* cells 7..11 (or the serial number) replaced.
SerialCells == { <<"7">>, <<" ", "7">>, <<"x">>, <<"T", "O", "T", "A", "L">> }
VoteCells ==
    { <<"1", "2", "3", "4", "5">>,
      <<"1", "2", ",", "3", "4", "5">>,
      <<" ", "1", ",", "2", " ">>,
      <<" ", "4", "2">>,
      <<"a", "b", "c">>,
      <<",">>,
      <<>>,
      NoneSeq }
RowInputs ==
    { [RowA7 EXCEPT ![1] = s, ![k + 1] = v] :
      s \in SerialCells, k \in 7..11, v \in VoteCells }

\* The document the run reads.  In Spec nothing is fixed in advance: every
\* read draws from the sets above.  A fixed document (a sequence of pages
\* [text, tables], a table being a sequence of rows) is read as it is.
NoFixture == [fixed |-> FALSE, pages |-> <<>>]

VARIABLES
    doc,                   \* the document being read (see NoFixture)
    pc,                    \* position in extract_pdf_to_json
    page_num,              \* number of pages the loop has taken from pdf.pages
    text,                  \* text of the current page
    current_constituency,  \* the accumulator, or None
    constituencies,        \* results["constituencies"]
    n_tables,              \* len(tables) of the current page
    t_idx,                 \* number of tables the table loop has taken
    table_head,            \* table[:Eager] of the current table
    r_idx,                 \* position of the next row of the row loop
    row,                   \* the row being parsed
    candidate,             \* what parse_table_row returned for it
    output,                \* the JSON document written, or None
    raised,                \* an exception left the page loop
    hist_headers,          \* history: every header match so far, in order
    hist_parsed            \* history: per header match, the serial numbers of
                           \* the rows parsed with a serial number under it

vars == << doc, pc, page_num, text, current_constituency, constituencies,
           n_tables, t_idx, table_head, r_idx, row, candidate, output,
           raised, hist_headers, hist_parsed >>

page_vars == << text, current_constituency, constituencies, hist_headers >>
table_vars == << n_tables, t_idx >>
row_vars == << table_head, r_idx, row, candidate >>

InitLocals ==
    /\ page_num = 0
    /\ text = NoneText
    /\ current_constituency = None
    /\ constituencies = <<>>
    /\ n_tables = 0
    /\ t_idx = 0
    /\ table_head = <<>>
    /\ r_idx = 0
    /\ candidate = None
    /\ output = None
    /\ raised = FALSE
    /\ hist_headers = <<>>
    /\ hist_parsed = <<>>

InitRun == pc = "open" /\ row = NoneSeq /\ InitLocals

\* A run over a document of which nothing is known in advance.
Init == doc = NoFixture /\ InitRun

\* A run over one of the documents of the end-to-end scenario.
InitE2E == doc \in E2EDocs /\ InitRun

\* A call of parse_table_row on its own.
InitRow == doc = NoFixture /\ pc = "call" /\ row \in RowInputs /\ InitLocals

(***************************************************************************)
(* What each read returns                                                  *)
(***************************************************************************)
CurrentPage == doc.pages[page_num]
CurrentTable == CurrentPage.tables[t_idx]

HasNextPage ==
    IF doc.fixed THEN page_num < Len(doc.pages) ELSE page_num < MaxPages
\* pdf.pages may end after any page.
MayEndHere == IF doc.fixed THEN page_num = Len(doc.pages) ELSE TRUE

TextReads == IF doc.fixed THEN {doc.pages[page_num + 1].text} ELSE Texts
TablesReads == IF doc.fixed THEN {Len(CurrentPage.tables)} ELSE 0..MaxTables
\* A table as the table loop sees it: its first rows, table[:Eager].
TableReads ==
    IF doc.fixed
    THEN LET t == CurrentPage.tables[t_idx + 1]
         IN  { SubSeq(t, 1, Min(Len(t), Eager)) }
    ELSE UNION { SeqsOfLen(HeadRows, n) : n \in 0..Min(MaxRows, Eager) }
\* The table has a row at position r_idx.
HasNextRow ==
    IF r_idx < Len(table_head) THEN TRUE
    ELSE IF doc.fixed THEN r_idx < Len(CurrentTable)
    ELSE r_idx < MaxRows
\* The table has no row at position r_idx: past its first rows a table may end
\* after any row.
MayEndTable ==
    IF r_idx < Len(table_head) THEN FALSE
    ELSE IF doc.fixed THEN r_idx >= Len(CurrentTable)
    ELSE TRUE
\* table[i], i counting from 0.
RowReads(i) ==
    IF i < Len(table_head) THEN {table_head[i + 1]}
    ELSE IF doc.fixed THEN {CurrentTable[i + 1]}
    ELSE Rows

(***************************************************************************)
(* extract_pdf_to_json                                                     *)
(***************************************************************************)
\* with pdfplumber.open(pdf_path) as pdf: current_constituency = None
Open ==
    /\ pc = "open"
    /\ pc' = "page"
    /\ UNCHANGED << doc, page_num, page_vars, table_vars, row_vars, output, raised,
                    hist_parsed >>

\* pdfplumber.open raises (an unreadable file).
OpenRaises ==
    /\ pc = "open"
    /\ ~doc.fixed
    /\ pc' = ExceptionTarget
    /\ raised' = TRUE
    /\ UNCHANGED << doc, page_num, page_vars, table_vars, row_vars, output,
                    hist_parsed >>

\* One turn of the page loop up to the tables: extract the text; a page with
\* no text is skipped; on a header match the previous record is flushed and a
\* new one started.
NextPage ==
    /\ pc = "page"
    /\ HasNextPage
    /\ \E t \in TextReads :
         LET info == IF NoText(t) THEN None ELSE extract_constituency_info(t)
         IN  /\ text' = t
             /\ page_num' = page_num + 1
             /\ IF NoText(t)
                THEN /\ pc' = "page"
                     /\ UNCHANGED << current_constituency, constituencies,
                                     hist_headers, hist_parsed >>
                ELSE /\ pc' = "tables"
                     /\ IF info # None
                        THEN /\ constituencies' = Flush(constituencies, current_constituency)
                             /\ current_constituency' = NewConstituency(info)
                             /\ hist_headers' = Append(hist_headers, info)
                             /\ hist_parsed' = Append(hist_parsed, {})
                        ELSE UNCHANGED << current_constituency, constituencies,
                                          hist_headers, hist_parsed >>
    /\ UNCHANGED << doc, table_vars, row_vars, output, raised >>

\* page.extract_text() raises.
TextRaises ==
    /\ pc = "page"
    /\ HasNextPage
    /\ ~doc.fixed
    /\ page_num' = page_num + 1
    /\ pc' = ExceptionTarget
    /\ raised' = TRUE
    /\ UNCHANGED << doc, page_vars, table_vars, row_vars, output, hist_parsed >>

\* tables = page.extract_tables(); if tables and current_constituency: ...
\* The text of the page is not read again; the model clears it.
ExtractTables ==
    /\ pc = "tables"
    /\ text' = NoneText
    /\ \E n \in TablesReads :
         IF n > 0 /\ current_constituency # None
         THEN /\ pc' = "table"
              /\ n_tables' = n
              /\ t_idx' = 0
         ELSE /\ pc' = "page"
              /\ UNCHANGED table_vars
    /\ UNCHANGED << doc, page_num, current_constituency, constituencies, hist_headers,
                    row_vars, output, raised, hist_parsed >>

\* page.extract_tables() raises.
TablesRaise ==
    /\ pc = "tables"
    /\ ~doc.fixed
    /\ pc' = ExceptionTarget
    /\ raised' = TRUE
    /\ UNCHANGED << doc, page_num, page_vars, table_vars, row_vars, output,
                    hist_parsed >>

\* for table in tables: if not table or len(table) < 2: continue
\* otherwise the row loop starts on table[2:].
NextTable ==
    /\ pc = "table"
    /\ t_idx < n_tables
    /\ \E h \in TableReads :
         /\ t_idx' = t_idx + 1
         /\ table_head' = h
         /\ r_idx' = SliceStart
         /\ pc' = IF h = <<>> \/ Len(h) < MinRows THEN "table" ELSE "row"
    /\ UNCHANGED << doc, page_num, page_vars, n_tables, row, candidate, output,
                    raised, hist_parsed >>

\* The table loop is over: back to the page loop.  The loop variables are not
\* read again; the model clears them.
TablesDone ==
    /\ pc = "table"
    /\ t_idx = n_tables
    /\ pc' = "page"
    /\ n_tables' = 0
    /\ t_idx' = 0
    /\ table_head' = <<>>
    /\ r_idx' = 0
    /\ UNCHANGED << doc, page_num, page_vars, row, candidate, output, raised,
                    hist_parsed >>

\* One turn of the row loop: parse the row, admit the candidate.
NextRow ==
    /\ pc = "row"
    /\ HasNextRow
    /\ \E r \in RowReads(r_idx) :
         LET cand == Parse(r)
         IN  /\ row' = r
             /\ candidate' = cand
             /\ current_constituency' = Admit(current_constituency, constituencies, cand)
             /\ hist_parsed' =
                  IF cand # None /\ cand.serial_number # Absent
                  THEN [hist_parsed EXCEPT ![Len(hist_parsed)] = @ \cup {cand.serial_number[1]}]
                  ELSE hist_parsed
    /\ r_idx' = r_idx + 1
    /\ UNCHANGED << doc, pc, page_num, text, constituencies, hist_headers, table_vars,
                    table_head, output, raised >>

\* The row loop is over: back to the table loop.  The loop variables are not
\* read again; the model clears them.
RowsDone ==
    /\ pc = "row"
    /\ MayEndTable
    /\ pc' = "table"
    /\ table_head' = <<>>
    /\ r_idx' = 0
    /\ row' = NoneSeq
    /\ candidate' = None
    /\ UNCHANGED << doc, page_num, page_vars, table_vars, output, raised, hist_parsed >>

\* The page loop is over: add the last constituency and leave the with block.
EndOfDocument ==
    /\ pc = "page"
    /\ MayEndHere
    /\ constituencies' = Flush(constituencies, current_constituency)
    /\ pc' = "write"
    /\ UNCHANGED << doc, page_num, text, current_constituency, hist_headers, table_vars,
                    row_vars, output, raised, hist_parsed >>

\* json.dump(results, f, ...); return results
Write ==
    /\ pc = "write"
    /\ output' = [ election |-> "2024 Lok Sabha Elections",
                   state |-> "Andhra Pradesh",
                   constituencies |-> constituencies ]
    /\ pc' = "done"
    /\ UNCHANGED << doc, page_num, page_vars, table_vars, row_vars, raised, hist_parsed >>

\* candidate = parse_table_row(row, headers), called on its own.
ParseRow ==
    /\ pc = "call"
    /\ candidate' = parse_table_row(row)
    /\ pc' = "return"
    /\ UNCHANGED << doc, page_num, page_vars, table_vars, table_head, r_idx,
                    row, output, raised, hist_parsed >>

Next ==
    \/ Open
    \/ OpenRaises
    \/ NextPage
    \/ TextRaises
    \/ ExtractTables
    \/ TablesRaise
    \/ NextTable
    \/ TablesDone
    \/ NextRow
    \/ RowsDone
    \/ EndOfDocument
    \/ Write

Spec == Init /\ [][Next]_vars

\* The run over a known document: no read raises.
NextE2E ==
    \/ Open
    \/ NextPage
    \/ ExtractTables
    \/ NextTable
    \/ TablesDone
    \/ NextRow
    \/ RowsDone
    \/ EndOfDocument
    \/ Write

SpecE2E == InitE2E /\ [][NextE2E]_vars

SpecRow == InitRow /\ [][ParseRow]_vars

(***************************************************************************)
(* Properties                                                              *)
(***************************************************************************)
\* The serial numbers of a candidate list.
Serials(cands) == { cands[i].serial_number : i \in 1..Len(cands) }

NoDuplicateSerial(cands) ==
    \A i, j \in 1..Len(cands) :
        i # j => cands[i].serial_number # cands[j].serial_number

\* The record was started by this header match.
SameHeader(rec, info) ==
    /\ rec.constituency_number = info.constituency_number
    /\ rec.constituency_name = info.constituency_name
    /\ rec.total_electors = info.total_electors

\* Every record so far, in order: the flushed ones, then the accumulator while
\* it has not been flushed at the end of the document.
Records ==
    IF current_constituency = None \/ pc \in {"write", "done"}
    THEN constituencies
    ELSE Append(constituencies, current_constituency)

\* The text is absent or empty.
AbsentOrEmpty(t) == t = <<None>> \/ t = <<>>

\* The step is a turn of the row loop.
RowStep == pc = "row" /\ r_idx' = r_idx + 1
\* The step is a header match.
HeaderStep == Len(hist_headers') = Len(hist_headers) + 1

\* C1: at every point of the run the records (the result list followed by the
\* unflushed accumulator) are exactly the header matches so far, one record
\* per match and in page order; after the page loop the result list alone
\* holds them all, and it is the list written.
C1_OneRecordPerHeader ==
    /\ Len(Records) = Len(hist_headers)
    /\ \A i \in 1..Len(hist_headers) : SameHeader(Records[i], hist_headers[i])
    /\ pc = "done" => output.constituencies = constituencies

C1_Witness ==
    /\ pc = "done"
    /\ Len(hist_headers) = 2
    /\ Len(output.constituencies) = 2

\* C2 (as stated): in the two-page scenario whose table is one header row and
\* one data row, the output has constituencies 1 and 2 in that order, the
\* first with exactly one candidate and the second with none.
C2_Scenario == doc.fixed /\ pc = "done" /\ Len(doc.pages[1].tables[1]) = 2

C2_FirstHasOneCandidate ==
    C2_Scenario =>
        /\ Len(output.constituencies) = 2
        /\ output.constituencies[1].constituency_number = 1
        /\ output.constituencies[2].constituency_number = 2
        /\ Len(output.constituencies[1].candidates) = 1
        /\ Len(output.constituencies[2].candidates) = 0

\* C2: in the two-page scenario whose table is one header row and one data
\* row, the output has constituencies 1 and 2 in that order, both with no
\* candidate: the data row is at position 1 of the table and the row loop
\* starts at position 2.  When two header rows precede the data row, the first
\* constituency has exactly the candidate with serial number 1.
C2_BothHaveNoCandidate ==
    (doc.fixed /\ pc = "done") =>
        /\ Len(output.constituencies) = 2
        /\ output.constituencies[1].constituency_number = 1
        /\ output.constituencies[2].constituency_number = 2
        /\ output.constituencies[2].candidates = <<>>
        /\ IF Len(doc.pages[1].tables[1]) = 2
           THEN output.constituencies[1].candidates = <<>>
           ELSE /\ Len(output.constituencies[1].candidates) = 1
                /\ output.constituencies[1].candidates[1].serial_number = <<1>>

C2_Witness == C2_Scenario /\ output.constituencies[1].candidates = <<>>

\* C3: no two candidates of one record have the same serial number, in the
\* accumulator, in the result list and in the output; the candidates a record
\* holds stay where they are while it is active, and a parsed row whose serial
\* number the record already holds changes nothing.
C3_NoDuplicates ==
    /\ \A k \in 1..Len(constituencies) : NoDuplicateSerial(constituencies[k].candidates)
    /\ current_constituency # None => NoDuplicateSerial(current_constituency.candidates)
    /\ pc = "done" =>
         \A k \in 1..Len(output.constituencies) :
             NoDuplicateSerial(output.constituencies[k].candidates)

C3_Step ==
    /\ C3_NoDuplicates'
    /\ (current_constituency # None /\ ~HeaderStep) =>
         /\ Len(current_constituency'.candidates) >= Len(current_constituency.candidates)
         /\ SubSeq(current_constituency'.candidates, 1,
                   Len(current_constituency.candidates))
              = current_constituency.candidates
    /\ ( /\ RowStep
         /\ candidate' # None
         /\ candidate'.serial_number \in Serials(current_constituency.candidates) )
       => current_constituency' = current_constituency

C3_FirstSerialWins == [][C3_Step]_vars

C3_Witness ==
    /\ pc = "row"
    /\ row = RowB7
    /\ candidate # None
    /\ candidate.serial_number = <<7>>
    /\ Len(current_constituency.candidates) = 1
    /\ current_constituency.candidates[1].candidate_name = <<"A", " ", "a">>

\* C4 (as stated): no two records of the output have the same
\* constituency_number.
C4_UniqueNumbers ==
    pc = "done" =>
        \A i, j \in 1..Len(output.constituencies) :
            i # j => output.constituencies[i].constituency_number
                       # output.constituencies[j].constituency_number

\* A vote-count cell made of digits and commas, with a digit in it.
DigitsAndCommas(c) ==
    /\ c # NoneSeq
    /\ \A i \in 1..Len(c) : c[i] \in Digits \cup {","}
    /\ \E i \in 1..Len(c) : c[i] \in Digits

\* The integer the cell denotes once its commas are removed.
WithoutCommas(c) == DigitsValue(Replace(c, ",", <<>>))

\* The field of the candidate that cell k (7..11) fills holds the integer n.
VoteFieldIs(cand, k, n) ==
    CASE k = 7  -> cand.total_votes_polled = <<n>>
      [] k = 8  -> cand.valid_votes = <<n>>
      [] k = 9  -> cand.votes_secured.general = n
      [] k = 10 -> cand.votes_secured.postal = n
      [] k = 11 -> cand.votes_secured.total = n

\* C5 (as stated): a row that the length and header/total rules let through
\* yields a candidate, and each of its cells 7..11 made of digits and commas
\* is carried as the integer left when the commas are removed.
C5_CommasRemoved ==
    ( /\ pc = "return"
      /\ Len(row) >= 10
      /\ Upper(Strip(row[1])) \notin { <<"S", "L">>, <<"S", "L", " ", "N", "O">>,
                                        <<"T", "O", "T", "A", "L">>, <<>> } )
    => \A k \in 7..11 :
           DigitsAndCommas(row[k + 1]) =>
               /\ candidate # None
               /\ VoteFieldIs(candidate, k, WithoutCommas(row[k + 1]))

\* The case of C5: the row with "12,345" in cell 7 has been parsed.
C5_Witness ==
    /\ pc = "return"
    /\ row = [RowA7 EXCEPT ![8] = <<"1", "2", ",", "3", "4", "5">>]
    /\ candidate = None

\* C6: the turn of the page loop on a page whose text is absent or empty
\* leaves the accumulator and the result list as they were and goes on to the
\* next page; the tables of a page are extracted only when it has text.
C6_Step ==
    /\ (page_num' = page_num + 1 /\ ~raised' /\ AbsentOrEmpty(text')) =>
         /\ current_constituency' = current_constituency
         /\ constituencies' = constituencies
         /\ hist_headers' = hist_headers
         /\ pc' = "page"
    /\ pc' = "tables" => ~AbsentOrEmpty(text')

C6_NoTextPageChangesNothing == [][C6_Step]_vars

C6_Witness ==
    /\ pc = "page"
    /\ page_num = 2
    /\ text = <<>>
    /\ current_constituency # None
    /\ current_constituency.candidates # <<>>
    /\ constituencies = <<>>

\* C7: a turn of the row loop appends the parsed candidate to the accumulator
\* when it has a serial number that no candidate of the accumulator has, and
\* otherwise leaves the accumulator as it was, whatever the flushed records
\* hold; so the serial numbers of each record are exactly those of the rows
\* parsed under its header.
C7_Admissible(c) ==
    /\ c # None
    /\ c.serial_number # Absent
    /\ c.serial_number \notin Serials(current_constituency.candidates)

C7_Complete ==
    /\ Len(Records) = Len(hist_parsed)
    /\ \A i \in 1..Len(Records) :
           Serials(Records[i].candidates) = { <<n>> : n \in hist_parsed[i] }

C7_Step ==
    /\ RowStep =>
         /\ current_constituency # None
         /\ IF C7_Admissible(candidate')
            THEN current_constituency' =
                   [current_constituency EXCEPT !.candidates = Append(@, candidate')]
            ELSE current_constituency' = current_constituency
    /\ C7_Complete'

C7_AdmittedIffNewSerial == [][C7_Step]_vars

C7_Witness ==
    /\ pc = "done"
    /\ Len(output.constituencies) = 2
    /\ <<1>> \in Serials(output.constituencies[1].candidates)
    /\ <<1>> \in Serials(output.constituencies[2].candidates)

\* C8: once a read has raised nothing is written; the output is written only
\* after the page loop has ended and the last accumulator has been flushed,
\* and it is the result list.
C8_NoWriteAfterFailure ==
    /\ raised => output = None /\ pc = "aborted"
    /\ output # None =>
         /\ ~raised
         /\ pc = "done"
         /\ output.constituencies = constituencies
         /\ current_constituency # None =>
              /\ constituencies # <<>>
              /\ constituencies[Len(constituencies)] = current_constituency

C8_Witness ==
    /\ raised
    /\ page_num = 2
    /\ current_constituency # None
    /\ current_constituency.candidates # <<>>
    /\ output = None

\* C9: the row loop takes rows from position 2 on only; taking a table from
\* the table loop changes no record, and a table of fewer than 2 rows does not
\* reach the row loop; a candidate is added to a record only by a turn of the
\* row loop, and it is the candidate parsed from the row at that position.
C9_Step ==
    /\ RowStep => r_idx >= 2
    /\ t_idx' = t_idx + 1 =>
         /\ current_constituency' = current_constituency
         /\ constituencies' = constituencies
         /\ Len(table_head') < 2 => pc' = "table"
    /\ ( /\ current_constituency # None
         /\ ~HeaderStep
         /\ current_constituency' # current_constituency )
       => /\ RowStep
          /\ r_idx >= 2
          /\ current_constituency'.candidates =
               Append(current_constituency.candidates, candidate')

C9_FirstTwoRowsSkipped == [][C9_Step]_vars

C9_Witness ==
    /\ pc = "row"
    /\ r_idx = 3
    /\ table_head = <<Row1, Row1>>
    /\ current_constituency # None
    /\ Serials(current_constituency.candidates) = {<<7>>}

\* C10: a record of the result list never changes; a header match flushes the
\* accumulator as it stands, starts the record of that header with no
\* candidate, and only then are the tables of the page processed; every other
\* change of the accumulator is made by the row loop, to the record of the
\* latest header; without an accumulator no table is processed.
C10_Step ==
    /\ \A i \in 1..Len(constituencies) :
           /\ Len(constituencies') >= i
           /\ constituencies'[i] = constituencies[i]
    /\ HeaderStep =>
         /\ pc = "page" /\ pc' = "tables"
         /\ constituencies' =
              IF current_constituency # None
              THEN Append(constituencies, current_constituency)
              ELSE constituencies
         /\ current_constituency'.candidates = <<>>
         /\ SameHeader(current_constituency', hist_headers'[Len(hist_headers')])
    /\ (~HeaderStep /\ current_constituency' # current_constituency) =>
         /\ pc = "row"
         /\ constituencies' = constituencies
         /\ SameHeader(current_constituency', hist_headers[Len(hist_headers)])
    /\ current_constituency' = None => pc' \notin {"table", "row"}

C10_HeaderBeforeTables == [][C10_Step]_vars

C10_Witness ==
    /\ pc = "row"
    /\ Len(constituencies) = 1
    /\ Serials(constituencies[1].candidates) = {<<7>>}
    /\ Serials(current_constituency.candidates) = {<<1>>}

====
